---- MODULE Spec2Model ----
(***************************************************************************)
(* Model of sophos-firewall-manager: classification of input lines, the    *)
(* existing-records and group-membership caches, per-record processing and *)
(* the Application.run orchestration.                                      *)
(*                                                                         *)
(* A line of the input file is a record [shape, text, addr, prefix]:       *)
(*   shape "name": text is the tuple of its characters;                    *)
(*   shape "ip":   addr is the address as a number of AddrBits bits;       *)
(*   shape "cidr": addr "/" prefix.                                        *)
(* An address is written like a dotted quad, one binary digit per part     *)
(* (Text); a line that is an address is always given as shape "ip".        *)
(***************************************************************************)
EXTENDS Integers, Sequences, FiniteSets, TLC

VARIABLES
    pc,                     \* position of Application.run
    update_mode,            \* Application.update_mode
    raw_records,            \* lines returned by TextFileReader.read_lines
    records,                \* classifier output (NetworkRecord list)
    group_results,          \* HostGroupService.create_groups result
    existing_cache,         \* ExistingRecordsCache fields
    cache_loaded,           \* value returned by the last ExistingRecordsCache.load
    existing_loads,         \* number of ExistingRecordsCache.load calls
    group_membership_cache, \* GroupMembershipCache fields
    membership_loads,       \* number of GroupMembershipCache.load calls
    existing_records,       \* run(): lines (indices into records) found existing
    new_records,            \* run(): lines to create
    records_to_update,      \* run(): lines queued for update-membership
    skipped_existing,       \* run(): count of skipped existing records
    summary,                \* ProcessingSummary under construction
    batch_summary,          \* process_batch's local ProcessingSummary
    pos,                    \* index of the next record of the running loop
    calls,                  \* remote calls issued so far, in order
    results,                \* OperationResults produced so far, in order
    reported,               \* results printed by the result formatter, in order
    exit_code,              \* value returned by run(), NoExit while running
    last_queries,           \* SpecCache: how the remote answered the queries of the
                            \* last ExistingRecordsCache.load, in order
    settings,               \* main(): outcome of get_settings in Application.__init__
    group_answers,          \* how the remote answered the group creations, in order
    denied,                 \* remote calls answered with the access-restriction error
    callback,               \* SpecBatch: the callback given to process_batch
    remote_answer           \* SpecClient: the remote's answer to the last create

vars == <<pc, update_mode, raw_records, records, group_results, existing_cache,
          cache_loaded, existing_loads, group_membership_cache, membership_loads,
          existing_records, new_records, records_to_update, skipped_existing,
          summary, batch_summary, pos, calls, results, reported, exit_code,
          last_queries, settings, group_answers, denied, callback, remote_answer>>

(***************************************************************************)
(* Bounds of the model.                                                    *)
(***************************************************************************)
MaxLines == 2       \* lines in the input file
MaxResults == 5     \* results folded into one summary (SpecSummary)
MaxLoads == 2       \* loads of one cache object (SpecCache)
AddrBits == 2       \* width of a modelled IP address

NoExit == 0 - 1

(***************************************************************************)
(* Domain entities (src/domain/entities.py).                               *)
(***************************************************************************)
RecordType == {"fqdn", "ip_address", "network_cidr", "invalid"}

OperationStatus == {"success", "already_exists", "failed", "skipped"}

NetworkRecord(value, record_type) == [value |-> value, record_type |-> record_type]

is_valid(record) == record.record_type # "invalid"
is_fqdn(record) == record.record_type = "fqdn"
is_ip_address(record) == record.record_type = "ip_address"
is_network(record) == record.record_type = "network_cidr"

OperationResult(record, status, status_code) ==
    [record |-> record, status |-> status, status_code |-> status_code]

EmptySummary ==
    [total |-> 0, successful |-> 0, already_exists |-> 0, failed |-> 0, skipped |-> 0]

\* record_result with the SKIPPED branch lost
RecordResultNoSkipped(s, status) ==
    [s EXCEPT !.total = @ + 1,
              !.successful = IF status = "success" THEN @ + 1 ELSE @,
              !.already_exists = IF status = "already_exists" THEN @ + 1 ELSE @,
              !.failed = IF status = "failed" THEN @ + 1 ELSE @]

\* record_result leaving a SKIPPED result out of the totals
RecordResultSkippedUncounted(s, status) ==
    [s EXCEPT !.total = IF status = "skipped" THEN @ ELSE @ + 1,
              !.successful = IF status = "success" THEN @ + 1 ELSE @,
              !.already_exists = IF status = "already_exists" THEN @ + 1 ELSE @,
              !.failed = IF status = "failed" THEN @ + 1 ELSE @]

\* ProcessingSummary.record_result
RecordResult(s, status) ==
    [s EXCEPT !.total = @ + 1,
              !.successful = IF status = "success" THEN @ + 1 ELSE @,
              !.already_exists = IF status = "already_exists" THEN @ + 1 ELSE @,
              !.failed = IF status = "failed" THEN @ + 1 ELSE @,
              !.skipped = IF status = "skipped" THEN @ + 1 ELSE @]

CategorySum(s) == s.successful + s.already_exists + s.failed + s.skipped

(***************************************************************************)
(* Input lines and their classification (src/domain/validators.py).        *)
(***************************************************************************)
Name(t) == [shape |-> "name", text |-> t, addr |-> 0, prefix |-> 0]
Ip(a) == [shape |-> "ip", text |-> <<>>, addr |-> a, prefix |-> 0]
Cidr(a, p) == [shape |-> "cidr", text |-> <<>>, addr |-> a, prefix |-> p]

MAX_LENGTH == 253
MIN_LABELS == 2
MAX_LABEL == 63

Pow2(n) == 2 ^ n

\* str.lower() on one character
LowerChar(c) == CASE c = "A" -> "a" [] c = "B" -> "b" [] OTHER -> c

\* str.lower()
Lower(t) == [i \in 1..Len(t) |-> LowerChar(t[i])]

\* str.removeprefix("*.")
RemoveWildcard(t) ==
    IF Len(t) >= 2 /\ t[1] = "*" /\ t[2] = "." THEN SubSeq(t, 3, Len(t)) ELSE t

\* str.rstrip(".")
RECURSIVE RStripDots(_)
RStripDots(t) ==
    IF Len(t) > 0 /\ t[Len(t)] = "." THEN RStripDots(SubSeq(t, 1, Len(t) - 1)) ELSE t

\* str.count(".")
DotCount(t) == Cardinality({i \in 1..Len(t) : t[i] = "."})

\* the pieces of t between dots
SplitDots(t) ==
    LET dots == {i \in 1..Len(t) : t[i] = "."}
        starts == {1} \cup {d + 1 : d \in dots}
        start(k) == CHOOSE b \in starts : Cardinality({d \in dots : d < b}) = k - 1
        end(b) == CHOOSE e \in b..(Len(t) + 1) :
                      /\ e \in dots \cup {Len(t) + 1}
                      /\ \A d \in dots : d >= b => e <= d
    IN  [k \in 1..(Cardinality(dots) + 1) |-> SubSeq(t, start(k), end(start(k)) - 1)]

\* the decimal digits, Digits[n + 1] being the digit of n
Digits == <<"0", "1", "2", "3", "4", "5", "6", "7", "8", "9">>

\* [-A-Z\d] under re.IGNORECASE, over the letters of the model
LabelChars == {"a", "b", "A", "B", "-"} \cup {Digits[n] : n \in 1..Len(Digits)}

\* the characters str.strip() removes
Whitespace == {" ", "\n"}

\* str.strip()
RECURSIVE Strip(_)
Strip(t) ==
    IF Len(t) > 0 /\ t[1] \in Whitespace THEN Strip(SubSeq(t, 2, Len(t)))
    ELSE IF Len(t) > 0 /\ t[Len(t)] \in Whitespace THEN Strip(SubSeq(t, 1, Len(t) - 1))
    ELSE t

\* the parts of an address, first part first; the first part of an address
\* out of range is a digit above 1
AddressPart(a, i) ==
    IF i = 1 THEN Digits[(a \div Pow2(AddrBits - 1)) + 1]
    ELSE Digits[((a \div Pow2(AddrBits - i)) % 2) + 1]

\* an address as the string the validators receive
Dotted(a) ==
    [k \in 1..(2 * AddrBits - 1) |->
        IF k % 2 = 1 THEN AddressPart(a, (k + 1) \div 2) ELSE "."]

\* a line as the string the validators receive
Text(v) ==
    CASE v.shape = "name" -> v.text
      [] v.shape = "ip" -> Dotted(v.addr)
      [] OTHER -> Dotted(v.addr) \o <<"/", Digits[v.prefix + 1]>>

\* value.strip() on a line
StripLine(v) == IF v.shape = "name" THEN [v EXCEPT !.text = Strip(v.text)] ELSE v

\* one label of _PATTERN: (?!-)[-A-Z\d]{1,63}(?<!-)
LabelMatches(l) ==
    /\ Len(l) >= 1
    /\ Len(l) <= MAX_LABEL
    /\ \A i \in 1..Len(l) : l[i] \in LabelChars
    /\ l[1] # "-"
    /\ l[Len(l)] # "-"

\* FQDNValidator._PATTERN.match: labels joined by dots, one optional final
\* dot; "$" matches at the end of the string and also just before a newline
\* that ends the string
PatternMatches(t) ==
    LET u == IF Len(t) > 0 /\ t[Len(t)] = "\n" THEN SubSeq(t, 1, Len(t) - 1) ELSE t
        body == IF Len(u) > 0 /\ u[Len(u)] = "." THEN SubSeq(u, 1, Len(u) - 1) ELSE u
        labels == SplitDots(body)
    IN  \A i \in 1..Len(labels) : LabelMatches(labels[i])

\* FQDNValidator.is_valid
FQDNValidator(v) ==
    /\ Len(Text(v)) > 0
    /\ LET normalized == Lower(RemoveWildcard(Text(v)))
       IN  /\ Len(RStripDots(normalized)) <= MAX_LENGTH
           /\ PatternMatches(normalized)
           /\ DotCount(RStripDots(normalized)) + 1 >= MIN_LABELS

\* IPAddressValidator.is_valid: an address without "/"
IPAddressValidator(v) == v.shape = "ip" /\ v.addr \in 0..(Pow2(AddrBits) - 1)

\* ipaddress.ip_network(value, strict=False): the host bits cleared
CanonicalNetwork(a, p) == Cidr(a - (a % Pow2(AddrBits - p)), p)

\* NetworkCIDRValidator.is_valid: "/" present, address and prefix parse;
\* pydantic's IPvAnyNetwork builds the network strictly (no host bits set)
NetworkCIDRValidator(v) ==
    /\ v.shape = "cidr"
    /\ v.addr \in 0..(Pow2(AddrBits) - 1)
    /\ v.prefix \in 0..AddrBits
    /\ CanonicalNetwork(v.addr, v.prefix) = v

\* classify trying the FQDN validator first
classifyFqdnFirst(raw) ==
    LET value == StripLine(raw)
    IN  IF FQDNValidator(value) THEN NetworkRecord(value, "fqdn")
        ELSE IF NetworkCIDRValidator(value) THEN NetworkRecord(value, "network_cidr")
        ELSE IF IPAddressValidator(value) THEN NetworkRecord(value, "ip_address")
        ELSE NetworkRecord(value, "invalid")

\* RecordClassifier.classify
classify(raw) ==
    LET value == StripLine(raw)
    IN  IF NetworkCIDRValidator(value) THEN NetworkRecord(value, "network_cidr")
        ELSE IF IPAddressValidator(value) THEN NetworkRecord(value, "ip_address")
        ELSE IF FQDNValidator(value) THEN NetworkRecord(value, "fqdn")
        ELSE NetworkRecord(value, "invalid")

\* classify_batch keeping the valid records only
classify_batch_valid_only(values) ==
    SelectSeq([i \in 1..Len(values) |-> classify(values[i])], is_valid)

\* RecordClassifier.classify_batch
classify_batch(values) == [i \in 1..Len(values) |-> classify(values[i])]

\* the lines an input file is drawn from
SampleLines ==
    { Name(<<"a", ".", "b">>), Name(<<"A", ".", "b">>), Name(<<"a">>),
      Ip(1), Cidr(Pow2(AddrBits - 1), 1) }

(***************************************************************************)
(* The remote system as seen through SophosFirewallClient's queries        *)
(* (src/infrastructure/firewall_client.py).  A query is answered with the  *)
(* objects found ("ok"), with SophosFirewallAPIError ("api_error"; with    *)
(* "restricted" when its message is the access-restriction message "not    *)
(* allowed from the requester IP") or with any other exception             *)
(* ("other_exception").                                                    *)
(***************************************************************************)
QueryKinds == {"ok", "api_error", "restricted", "other_exception"}

\* FQDN attribute of the FQDNHost objects the remote may hold
RemoteFqdnHosts == { <<"A", ".", "b">> }

\* netmask of a prefix length, and back
MaskOf(p) == Pow2(AddrBits) - Pow2(AddrBits - p)
IsMask(m) == \E p \in 0..AddrBits : MaskOf(p) = m
PrefixOfMask(m) == CHOOSE p \in 0..AddrBits : MaskOf(p) = m

IPHost(type, a, m) == [HostType |-> type, IPAddress |-> a, Subnet |-> m]

\* IPHost objects the remote may hold
RemoteIpHosts ==
    { IPHost("IP", 1, MaskOf(AddrBits)),
      IPHost("Network", Pow2(AddrBits - 1), MaskOf(1)),
      IPHost("Network", Pow2(AddrBits - 1) + 1, MaskOf(1)) }

Answers(universe) ==
    [kind : {"ok"}, data : SUBSET universe]
        \cup [kind : QueryKinds \ {"ok"}, data : {{}}]

\* the access restriction is decided on the requester's address: within one
\* load the remote applies it to every query or to none
SamePolicy(kinds) ==
    \A j \in 1..Len(kinds), k \in 1..Len(kinds) :
        (kinds[j] = "restricted") <=> (kinds[k] = "restricted")

Returned(v) == [raised |-> FALSE, value |-> v]
Raised == [raised |-> TRUE, value |-> {}]

\* SophosFirewallClient._extract_fqdn_values
ExtractFqdnValues(data) == {Lower(f) : f \in {g \in data : Len(g) > 0}}

\* SophosFirewallClient._extract_ip_values
ExtractIpValues(data) == {Ip(h.IPAddress) : h \in {g \in data : g.HostType = "IP"}}

\* SophosFirewallClient._extract_network_values
ExtractNetworkValues(data) ==
    {CanonicalNetwork(h.IPAddress, PrefixOfMask(h.Subnet)) :
        h \in {g \in data : g.HostType = "Network" /\ IsMask(g.Subnet)}}

\* SophosFirewallClient.get_existing_fqdns
get_existing_fqdns(ans) ==
    CASE ans.kind = "ok" -> Returned(ExtractFqdnValues(ans.data))
      [] ans.kind \in {"api_error", "restricted"} -> Returned({})
      [] OTHER -> Raised

\* SophosFirewallClient.get_existing_ip_hosts
get_existing_ip_hosts(ans) ==
    CASE ans.kind = "ok" -> Returned(ExtractIpValues(ans.data))
      [] ans.kind \in {"api_error", "restricted"} -> Returned({})
      [] OTHER -> Raised

\* SophosFirewallClient.get_existing_networks
get_existing_networks(ans) ==
    CASE ans.kind = "ok" -> Returned(ExtractNetworkValues(ans.data))
      [] ans.kind \in {"api_error", "restricted"} -> Returned({})
      [] OTHER -> Raised

(***************************************************************************)
(* ExistingRecordsCache (src/services/cache_service.py).                   *)
(***************************************************************************)
EmptyExistingCache ==
    [fqdns |-> {}, ip_hosts |-> {}, networks |-> {},
     loaded |-> FALSE, fetch_failed |-> FALSE]

LoadFailed(c) == [c EXCEPT !.fetch_failed = TRUE, !.loaded = FALSE]

\* ExistingRecordsCache.load: the cache after the call, the value returned and
\* the number of queries issued
ExistingLoad(c, a1, a2, a3) ==
    LET r1 == get_existing_fqdns(a1)
        c1 == [c EXCEPT !.fqdns = r1.value]
        r2 == get_existing_ip_hosts(a2)
        c2 == [c1 EXCEPT !.ip_hosts = r2.value]
        r3 == get_existing_networks(a3)
        c3 == [c2 EXCEPT !.networks = r3.value]
    IN  IF r1.raised THEN [cache |-> LoadFailed(c), ret |-> FALSE, queries |-> 1]
        ELSE IF r2.raised THEN [cache |-> LoadFailed(c1), ret |-> FALSE, queries |-> 2]
        ELSE IF r3.raised THEN [cache |-> LoadFailed(c2), ret |-> FALSE, queries |-> 3]
        ELSE [cache |-> [c3 EXCEPT !.loaded = TRUE, !.fetch_failed = FALSE],
              ret |-> TRUE, queries |-> 3]

\* exists() without the fallback guard
ExistsUnguarded(c, record) ==
    CASE record.record_type = "fqdn" -> Lower(record.value.text) \in c.fqdns
      [] record.record_type = "ip_address" -> record.value \in c.ip_hosts
      [] record.record_type = "network_cidr" ->
            CanonicalNetwork(record.value.addr, record.value.prefix) \in c.networks
      [] OTHER -> FALSE

\* exists() looking the value up as it is written
ExistsLiteral(c, record) ==
    IF ~c.loaded \/ c.fetch_failed THEN FALSE
    ELSE CASE record.record_type = "fqdn" -> record.value.text \in c.fqdns
           [] record.record_type = "ip_address" -> record.value \in c.ip_hosts
           [] record.record_type = "network_cidr" -> record.value \in c.networks
           [] OTHER -> FALSE

\* ExistingRecordsCache.exists
Exists(c, record) ==
    IF ~c.loaded \/ c.fetch_failed THEN FALSE
    ELSE CASE record.record_type = "fqdn" -> Lower(record.value.text) \in c.fqdns
           [] record.record_type = "ip_address" -> record.value \in c.ip_hosts
           [] record.record_type = "network_cidr" ->
                 CanonicalNetwork(record.value.addr, record.value.prefix) \in c.networks
           [] OTHER -> FALSE

(***************************************************************************)
(* GroupMembershipCache (src/services/cache_service.py).                   *)
(***************************************************************************)
\* host names the remote may list as members of the two groups
RemoteFqdnMembers == { Name(<<"a", ".", "b">>) }
RemoteIpMembers == { Ip(1), Cidr(Pow2(AddrBits - 1), 1) }

\* SophosFirewallClient.get_fqdn_group_members
get_fqdn_group_members(ans) ==
    CASE ans.kind = "ok" -> Returned(ans.data)
      [] ans.kind \in {"api_error", "restricted"} -> Returned({})
      [] OTHER -> Raised

\* SophosFirewallClient.get_ip_group_members
get_ip_group_members(ans) ==
    CASE ans.kind = "ok" -> Returned(ans.data)
      [] ans.kind \in {"api_error", "restricted"} -> Returned({})
      [] OTHER -> Raised

EmptyMembershipCache ==
    [fqdn_group_members |-> {}, ip_group_members |-> {}, loaded |-> FALSE]

\* GroupMembershipCache.load
MembershipLoad(c, a1, a2) ==
    LET r1 == get_fqdn_group_members(a1)
        c1 == [c EXCEPT !.fqdn_group_members = r1.value]
        r2 == get_ip_group_members(a2)
        c2 == [c1 EXCEPT !.ip_group_members = r2.value]
    IN  IF r1.raised THEN [cache |-> [c EXCEPT !.loaded = FALSE], ret |-> FALSE, queries |-> 1]
        ELSE IF r2.raised
             THEN [cache |-> [c1 EXCEPT !.loaded = FALSE], ret |-> FALSE, queries |-> 2]
        ELSE [cache |-> [c2 EXCEPT !.loaded = TRUE], ret |-> TRUE, queries |-> 2]

\* GroupMembershipCache.is_member
IsMember(c, record) ==
    IF ~c.loaded THEN FALSE
    ELSE CASE record.record_type = "fqdn" -> record.value \in c.fqdn_group_members
           [] record.record_type \in {"ip_address", "network_cidr"} ->
                 record.value \in c.ip_group_members
           [] OTHER -> FALSE

(***************************************************************************)
(* HostGroupService (src/services/group_service.py).                       *)
(***************************************************************************)
\* GroupConfiguration.fqdn_group_name
fqdn_group == "base_FQDNHostGroup"

\* GroupConfiguration.ip_group_name
ip_group == "base_IPHostGroup"

NoGroup == "none"

\* HostGroupService.get_group_for_record_type; NoGroup stands for ValueError
get_group_for_record_type(record_type) ==
    CASE record_type = "fqdn" -> fqdn_group
      [] record_type \in {"ip_address", "network_cidr"} -> ip_group
      [] OTHER -> NoGroup

(***************************************************************************)
(* Per-record remote operations (src/infrastructure/firewall_client.py).   *)
(*                                                                         *)
(* The remote answers a create call with a response or by raising          *)
(* SophosFirewallAPIError; the answer is described by                      *)
(*   via        "response", "error_dict" (the error carries a response     *)
(*              dict, or its repr) or "error_text" (a plain message);      *)
(*   code       the @code of its Status, "unknown" when it has none;       *)
(*   ae         its text contains "already exists" or "same name";         *)
(*   restricted its text contains "not allowed from the requester IP".     *)
(***************************************************************************)
STATUS_SUCCESS == "200"
STATUS_ALREADY_EXISTS == "501"
STATUS_OPERATION_FAILED == "502"
STATUS_INVALID_VALUE == "503"
STATUS_UNKNOWN == "unknown"

StatusCodes ==
    {STATUS_SUCCESS, STATUS_ALREADY_EXISTS, STATUS_OPERATION_FAILED,
     STATUS_INVALID_VALUE, STATUS_UNKNOWN}

CreateAnswers ==
    [via : {"response"}, code : StatusCodes, ae : BOOLEAN, restricted : {FALSE}]
        \cup [via : {"error_dict"}, code : StatusCodes, ae : BOOLEAN, restricted : BOOLEAN]
        \cup [via : {"error_text"}, code : {STATUS_UNKNOWN}, ae : BOOLEAN,
              restricted : BOOLEAN]

\* _STATUS_MAPPING.get(code, OperationStatus.FAILED)
StatusMapping(code) ==
    CASE code = STATUS_SUCCESS -> "success"
      [] code = STATUS_ALREADY_EXISTS -> "already_exists"
      [] OTHER -> "failed"

\* SophosFirewallClient._parse_response
ParseResponse(record, code, ae) ==
    LET code2 == IF code = STATUS_OPERATION_FAILED /\ ae
                 THEN STATUS_ALREADY_EXISTS ELSE code
    IN  OperationResult(record, StatusMapping(code2), code2)

NoAnswer == [via |-> "none", code |-> STATUS_UNKNOWN, ae |-> FALSE, restricted |-> FALSE]

NoResult == OperationResult(NetworkRecord(Name(<<>>), "invalid"), "failed", "none")

\* _execute_operation without the access-restriction check: the error is
\* handled like any other error of the remote
ExecuteOperationNoRestriction(record, ans) ==
    IF ans.via \in {"response", "error_dict"}
    THEN [raised |-> FALSE, result |-> ParseResponse(record, ans.code, ans.ae)]
    ELSE IF ans.ae
    THEN [raised |-> FALSE,
          result |-> OperationResult(record, "already_exists", STATUS_ALREADY_EXISTS)]
    ELSE [raised |-> FALSE,
          result |-> OperationResult(record, "failed", STATUS_OPERATION_FAILED)]

\* SophosFirewallClient._execute_operation; raised stands for
\* FirewallIPRestrictionException
ExecuteOperation(record, ans) ==
    IF ans.via = "response"
    THEN [raised |-> FALSE, result |-> ParseResponse(record, ans.code, ans.ae)]
    ELSE IF ans.restricted
    THEN [raised |-> TRUE, result |-> NoResult]
    ELSE IF ans.via = "error_dict"
    THEN [raised |-> FALSE, result |-> ParseResponse(record, ans.code, ans.ae)]
    ELSE IF ans.ae
    THEN [raised |-> FALSE,
          result |-> OperationResult(record, "already_exists", STATUS_ALREADY_EXISTS)]
    ELSE [raised |-> FALSE,
          result |-> OperationResult(record, "failed", STATUS_OPERATION_FAILED)]

\* a request sent to the remote: the library function, the name of the object
\* and the group named in the request (NoGroup when the request names none)
Request(op, name, group) == [op |-> op, name |-> name, group |-> group]

\* SophosFirewallClient.create_fqdn_host
create_fqdn_host(record, group) == Request("create_fqdn_host", record.value, group)

\* SophosFirewallClient.create_ip_host
create_ip_host(record, group) == Request("create_ip_host", record.value, group)

\* SophosFirewallClient.create_network: name, network address and mask only
create_network(record, group) == Request("create_ip_network", record.value, NoGroup)

(***************************************************************************)
(* RecordProcessingService (src/services/record_service.py).               *)
(***************************************************************************)
RecordProcessingServiceMethods == {"process_record", "_add_to_group", "process_batch"}

Skipped(record) == OperationResult(record, "skipped", "000")
Failed000(record) == OperationResult(record, "failed", "000")

\* process_record without the validity check: the group lookup raises
\* ValueError and the record is reported Failed
ProcessRecordNoValidityCheck(record, ans) ==
    LET group == get_group_for_record_type(record.record_type)
    IN  IF group = NoGroup
        THEN [raised |-> FALSE, result |-> Failed000(record), requests |-> <<>>]
        ELSE LET req == CASE is_fqdn(record) -> create_fqdn_host(record, group)
                          [] is_ip_address(record) -> create_ip_host(record, group)
                          [] OTHER -> create_network(record, group)
                 r == ExecuteOperation(record, ans)
             IN  [raised |-> r.raised, result |-> r.result, requests |-> <<req>>]

\* process_record sending the create a second time when it failed
ProcessRecordRetryOnFailed(record, ans) ==
    IF ~is_valid(record)
    THEN [raised |-> FALSE, result |-> Skipped(record), requests |-> <<>>]
    ELSE LET group == get_group_for_record_type(record.record_type)
             req == CASE is_fqdn(record) -> create_fqdn_host(record, group)
                      [] is_ip_address(record) -> create_ip_host(record, group)
                      [] OTHER -> create_network(record, group)
             r == ExecuteOperation(record, ans)
         IN  [raised |-> r.raised, result |-> r.result,
              requests |-> IF ~r.raised /\ r.result.status = "failed"
                           THEN <<req, req>> ELSE <<req>>]

\* RecordProcessingService.process_record on a record, the remote answering
\* its create call (if it makes one) with ans
ProcessRecord(record, ans) ==
    IF ~is_valid(record)
    THEN [raised |-> FALSE, result |-> Skipped(record), requests |-> <<>>]
    ELSE LET group == get_group_for_record_type(record.record_type)
         IN  IF group = NoGroup
             THEN [raised |-> FALSE, result |-> Failed000(record), requests |-> <<>>]
             ELSE LET req == CASE is_fqdn(record) -> create_fqdn_host(record, group)
                               [] is_ip_address(record) -> create_ip_host(record, group)
                               [] OTHER -> create_network(record, group)
                      r == ExecuteOperation(record, ans)
                  IN  [raised |-> r.raised, result |-> r.result, requests |-> <<req>>]

(***************************************************************************)
(* Presentation (src/presentation/formatters.py).                          *)
(***************************************************************************)
\* OperationResultFormatter.format: TRUE when it raises AttributeError, which
\* it does on reaching the comparison with OperationStatus.UPDATED
ResultFormatRaises(status) ==
    IF status = "success" THEN FALSE
    ELSE "updated" \notin OperationStatus

\* SummaryFormatter.format: TRUE when it raises AttributeError (summary.updated)
SummaryFormatRaises(s) == "updated" \notin DOMAIN s

(***************************************************************************)
(* Group creation (firewall_client.py, group_service.py).                  *)
(***************************************************************************)
GroupAnswers == {"created", "already_exists", "operation_error", "restricted"}

\* _create_group swallowing the errors that are not already-exists
CreateGroupErrorsIgnored(ans) ==
    CASE ans = "already_exists" -> "ResourceAlreadyExistsException"
      [] OTHER -> "none"

\* SophosFirewallClient._create_group: the exception it raises, if any
CreateGroup(ans) ==
    CASE ans = "created" -> "none"
      [] ans = "already_exists" -> "ResourceAlreadyExistsException"
      [] OTHER -> "FirewallOperationException"

NoName == Name(<<>>)

Call(op, name, group, line) == [op |-> op, name |-> name, group |-> group, line |-> line]

RequestCalls(requests, line) ==
    [k \in 1..Len(requests) |->
        Call(requests[k].op, requests[k].name, requests[k].group, line)]

QueryCalls(ops, n) == [k \in 1..n |-> Call(ops[k], NoName, NoGroup, 0)]

CreateOps == {"create_fqdn_host", "create_ip_host", "create_ip_network"}
UpdateOps == {"update_fqdn_hostgroup", "update_ip_hostgroup"}

\* a remote call the remote answered with the access-restriction error
Denied(op, line) == [op |-> op, line |-> line]

\* the requests of one record answered with that error
DeniedRequests(requests, ans, line) ==
    IF ans.restricted
    THEN {Denied(requests[k].op, line) : k \in 1..Len(requests)}
    ELSE {}

\* the queries, among the first n of ops, answered with that error
DeniedQueries(ops, kinds, n) ==
    {Denied(ops[k], 0) : k \in {j \in 1..n : kinds[j] = "restricted"}}

(***************************************************************************)
(* Application.run (src/cli/commands.py).                                  *)
(***************************************************************************)
InputFiles == UNION {[1..n -> SampleLines] : n \in 1..MaxLines}

Idle ==
    /\ raw_records = <<>>
    /\ records = <<>>
    /\ group_results = [fqdn |-> "none", ip |-> "none"]
    /\ existing_cache = EmptyExistingCache
    /\ cache_loaded = FALSE
    /\ existing_loads = 0
    /\ group_membership_cache = EmptyMembershipCache
    /\ membership_loads = 0
    /\ existing_records = <<>>
    /\ new_records = <<>>
    /\ records_to_update = <<>>
    /\ skipped_existing = 0
    /\ summary = EmptySummary
    /\ batch_summary = EmptySummary
    /\ pos = 0
    /\ calls = <<>>
    /\ results = <<>>
    /\ reported = <<>>
    /\ exit_code = NoExit
    /\ last_queries = <<>>
    /\ group_answers = <<>>
    /\ denied = {}
    /\ callback = "none"
    /\ remote_answer = NoAnswer

Exit(code) ==
    /\ pc' = "done"
    /\ exit_code' = code

Init ==
    /\ pc = "main"
    /\ update_mode \in BOOLEAN
    /\ settings = "unset"
    /\ Idle

\* main(): Application(...) is built; get_settings succeeds and the components
\* are initialized
Construct ==
    /\ pc = "main"
    /\ settings' = "loaded"
    /\ pc' = "start"
    /\ UNCHANGED <<update_mode, raw_records, records, group_results, existing_cache,
                   cache_loaded, existing_loads, group_membership_cache,
                   membership_loads, existing_records, new_records, records_to_update,
                   skipped_existing, summary, batch_summary, pos, calls, results,
                   reported, exit_code, last_queries, group_answers, denied, callback,
                   remote_answer>>

\* exit status of the interpreter when an exception leaves main()
UNCAUGHT_EXIT == 1

\* main(): get_settings raises in Application.__init__, which raises
\* ConfigurationException; the constructor call is outside run()'s try block
\* and main() has no handler, so the exception leaves the program
ConstructFails ==
    /\ pc = "main"
    /\ settings' = "invalid"
    /\ Exit(UNCAUGHT_EXIT)
    /\ UNCHANGED <<update_mode, raw_records, records, group_results, existing_cache,
                   cache_loaded, existing_loads, group_membership_cache,
                   membership_loads, existing_records, new_records, records_to_update,
                   skipped_existing, summary, batch_summary, pos, calls, results,
                   reported, last_queries, group_answers, denied, callback,
                   remote_answer>>

\* run(), step 1 failing: read_lines raises FileOperationException
ReadFileFails ==
    /\ pc = "start"
    /\ Exit(1)
    /\ UNCHANGED <<settings, group_answers, denied, callback, remote_answer,
                   last_queries, update_mode, raw_records, records, group_results, existing_cache,
                   cache_loaded, existing_loads, group_membership_cache,
                   membership_loads, existing_records, new_records, records_to_update,
                   skipped_existing, summary, batch_summary, pos, calls, results,
                   reported>>

\* run(), steps 1 and 2: read the lines and classify them
ReadAndClassify ==
    /\ pc = "start"
    /\ \E lines \in InputFiles :
        /\ raw_records' = lines
        /\ records' = classify_batch(lines)
    /\ pc' = "groups"
    /\ UNCHANGED <<settings, group_answers, denied, callback, remote_answer,
                   last_queries, update_mode, group_results, existing_cache, cache_loaded,
                   existing_loads, group_membership_cache, membership_loads,
                   existing_records, new_records, records_to_update, skipped_existing,
                   summary, batch_summary, pos, calls, results, reported, exit_code>>

\* create_groups recording every group as newly created
GroupResultAlwaysCreated(exc) == "created"

\* create_groups: results[group] is True after a creation, False after an
\* already-exists answer
GroupResult(exc) == IF exc = "none" THEN "created" ELSE "existed"

\* create_groups' test of the message of a FirewallOperationException:
\* "already exists" or "same name" in it
MessageSaysAlreadyExists(ans) == ans = "already_exists"

\* run(), step 3: HostGroupService.create_groups; a FirewallOperationException
\* whose message is not an already-exists message is raised again and leaves
\* run() through `except FirewallException`
CreateGroups ==
    /\ pc = "groups"
    /\ \E g1 \in GroupAnswers, g2 \in GroupAnswers :
        LET e1 == CreateGroup(g1)
            e2 == CreateGroup(g2)
            c1 == Call("create_fqdn_hostgroup", NoName, fqdn_group, 0)
            c2 == Call("create_ip_hostgroup", NoName, ip_group, 0)
            d1 == IF g1 = "restricted" THEN {Denied(c1.op, 0)} ELSE {}
            d2 == IF g2 = "restricted" THEN {Denied(c2.op, 0)} ELSE {}
        IN  IF e1 = "FirewallOperationException" /\ ~MessageSaysAlreadyExists(g1)
            THEN /\ calls' = calls \o <<c1>>
                 /\ group_answers' = <<g1>>
                 /\ denied' = denied \cup d1
                 /\ Exit(3)
                 /\ UNCHANGED group_results
            ELSE IF e2 = "FirewallOperationException" /\ ~MessageSaysAlreadyExists(g2)
            THEN /\ calls' = calls \o <<c1, c2>>
                 /\ group_answers' = <<g1, g2>>
                 /\ denied' = denied \cup d1 \cup d2
                 /\ Exit(3)
                 /\ UNCHANGED group_results
            ELSE /\ calls' = calls \o <<c1, c2>>
                 /\ group_answers' = <<g1, g2>>
                 /\ denied' = denied \cup d1 \cup d2
                 /\ group_results' = [fqdn |-> GroupResult(e1), ip |-> GroupResult(e2)]
                 /\ pc' = "existing"
                 /\ UNCHANGED exit_code
    /\ UNCHANGED <<settings, callback, remote_answer,
                   last_queries, update_mode, raw_records, records, existing_cache, cache_loaded,
                   existing_loads, group_membership_cache, membership_loads,
                   existing_records, new_records, records_to_update, skipped_existing,
                   summary, batch_summary, pos, results, reported>>

\* the records iterated last to first
LinesReversed == [i \in 1..Len(records) |-> Len(records) + 1 - i]

Lines == [i \in 1..Len(records) |-> i]

\* run(), step 5 entry: nothing to do ends the run with 0, otherwise the
\* summary is created and the first pending loop is entered
Proceed(new, upd) ==
    /\ summary' = EmptySummary
    /\ batch_summary' = EmptySummary
    /\ IF Len(new) + Len(upd) = 0
       THEN /\ Exit(0)
            /\ pos' = 0
       ELSE /\ pc' = IF Len(new) > 0 THEN "create" ELSE "update"
            /\ pos' = 1
            /\ UNCHANGED exit_code

\* run(), step 4: ExistingRecordsCache.load and the partition of the records
LoadExisting ==
    /\ pc = "existing"
    /\ \E a1 \in Answers(RemoteFqdnHosts), a2 \in Answers(RemoteIpHosts),
          a3 \in Answers(RemoteIpHosts) :
        LET r == ExistingLoad(existing_cache, a1, a2, a3)
            IsExisting(i) == is_valid(records[i]) /\ Exists(r.cache, records[i])
            IsNew(i) == ~IsExisting(i)
            existing == SelectSeq(Lines, IsExisting)
            new == SelectSeq(Lines, IsNew)
        IN  /\ SamePolicy(<<a1.kind, a2.kind, a3.kind>>)
            /\ existing_cache' = r.cache
            /\ cache_loaded' = r.ret
            /\ existing_loads' = existing_loads + 1
            /\ calls' = calls \o
                 QueryCalls(<<"get_fqdn_host", "get_ip_host", "get_ip_host">>, r.queries)
            /\ denied' = denied \cup
                 DeniedQueries(<<"get_fqdn_host", "get_ip_host", "get_ip_host">>,
                               <<a1.kind, a2.kind, a3.kind>>, r.queries)
            /\ IF r.ret
               THEN /\ existing_records' = existing
                    /\ new_records' = new
                    /\ IF update_mode /\ Len(existing) > 0
                       THEN /\ pc' = "membership"
                            /\ UNCHANGED <<records_to_update, skipped_existing, summary,
                                           batch_summary, pos, exit_code>>
                       ELSE /\ records_to_update' = <<>>
                            /\ skipped_existing' = Len(existing)
                            /\ Proceed(new, <<>>)
               ELSE /\ existing_records' = <<>>
                    /\ new_records' = Lines
                    /\ records_to_update' = <<>>
                    /\ UNCHANGED skipped_existing
                    /\ Proceed(Lines, <<>>)
    /\ UNCHANGED <<settings, group_answers, callback, remote_answer,
                   last_queries, update_mode, raw_records, records, group_results,
                   group_membership_cache, membership_loads, results, reported>>

\* run(), update mode: GroupMembershipCache.load and the choice of the
\* existing records to update
LoadMembership ==
    /\ pc = "membership"
    /\ \E a1 \in Answers(RemoteFqdnMembers), a2 \in Answers(RemoteIpMembers) :
        LET r == MembershipLoad(group_membership_cache, a1, a2)
            NotMember(i) == ~IsMember(r.cache, records[i])
            upd == SelectSeq(existing_records, NotMember)
        IN  /\ SamePolicy(<<a1.kind, a2.kind>>)
            /\ group_membership_cache' = r.cache
            /\ membership_loads' = membership_loads + 1
            /\ calls' = calls \o
                 QueryCalls(<<"get_fqdn_hostgroup", "get_ip_hostgroup">>, r.queries)
            /\ denied' = denied \cup
                 DeniedQueries(<<"get_fqdn_hostgroup", "get_ip_hostgroup">>,
                               <<a1.kind, a2.kind>>, r.queries)
            /\ records_to_update' = upd
            /\ Proceed(new_records, upd)
    /\ UNCHANGED <<settings, group_answers, callback, remote_answer,
                   last_queries, update_mode, raw_records, records, group_results, existing_cache,
                   cache_loaded, existing_loads, existing_records, new_records,
                   skipped_existing, results, reported>>

\* summary.x += batch_summary.x for every counter
AddSummary(s, b) ==
    [total |-> s.total + b.total,
     successful |-> s.successful + b.successful,
     already_exists |-> s.already_exists + b.already_exists,
     failed |-> s.failed + b.failed,
     skipped |-> s.skipped + b.skipped]

Reported(line, status) == [line |-> line, status |-> status]

\* run(), create loop: one iteration of process_batch over new_records with
\* create_callback, and what follows the loop's last iteration
\* a cache that takes in the value of a record just created
CacheAfterRecordAdds(c, record, result) ==
    IF ~c.loaded \/ result.status # "success" THEN c
    ELSE CASE record.record_type = "fqdn" ->
                [c EXCEPT !.fqdns = @ \cup {Lower(record.value.text)}]
           [] record.record_type = "ip_address" ->
                [c EXCEPT !.ip_hosts = @ \cup {record.value}]
           [] OTHER ->
                [c EXCEPT !.networks = @ \cup
                    {CanonicalNetwork(record.value.addr, record.value.prefix)}]

\* the existing-records cache after process_record(record) gave result:
\* neither process_record nor _add_to_group nor the client's create methods
\* hold a reference to the cache
CacheAfterRecord(c, record, result) == c

ProcessNext ==
    /\ pc = "create"
    /\ pos <= Len(new_records)
    /\ \E ans \in CreateAnswers :
        LET line == new_records[pos]
            r == ProcessRecord(records[line], ans)
            b == RecordResult(batch_summary, r.result.status)
        IN  /\ calls' = calls \o RequestCalls(r.requests, line)
            /\ existing_cache' = CacheAfterRecord(existing_cache, records[line], r.result)
            /\ denied' = denied \cup DeniedRequests(r.requests, ans, line)
            /\ IF r.raised
               THEN /\ Exit(2)
                    /\ UNCHANGED <<results, reported, batch_summary, summary, pos>>
               ELSE /\ results' = Append(results, Reported(line, r.result.status))
                    /\ batch_summary' = b
                    /\ IF ResultFormatRaises(r.result.status)
                       THEN /\ Exit(1)
                            /\ UNCHANGED <<reported, summary, pos>>
                       ELSE /\ reported' = Append(reported, Reported(line, r.result.status))
                            /\ IF pos < Len(new_records)
                               THEN /\ pos' = pos + 1
                                    /\ UNCHANGED <<pc, summary, exit_code>>
                               ELSE /\ summary' = AddSummary(summary, b)
                                    /\ pos' = 1
                                    /\ pc' = IF Len(records_to_update) > 0
                                             THEN "update" ELSE "summary"
                                    /\ UNCHANGED exit_code
    /\ UNCHANGED <<settings, group_answers, callback, remote_answer,
                   last_queries, update_mode, raw_records, records, group_results,
                   cache_loaded, existing_loads, group_membership_cache,
                   membership_loads, existing_records, new_records, records_to_update,
                   skipped_existing>>

\* run(), update loop: record_service.update_existing_record is no attribute
\* of RecordProcessingService, so the first iteration raises AttributeError,
\* which leaves run() through `except Exception`
UpdateNext ==
    /\ pc = "update"
    /\ pos <= Len(records_to_update)
    /\ "update_existing_record" \notin RecordProcessingServiceMethods
    /\ Exit(1)
    /\ UNCHANGED <<settings, group_answers, denied, callback, remote_answer,
                   last_queries, update_mode, raw_records, records, group_results, existing_cache,
                   cache_loaded, existing_loads, group_membership_cache,
                   membership_loads, existing_records, new_records, records_to_update,
                   skipped_existing, summary, batch_summary, pos, calls, results,
                   reported>>

\* run(), after the loops: the skipped existing records are added to the
\* summary and the summary is displayed
DisplaySummary ==
    /\ pc = "summary"
    /\ LET s == [summary EXCEPT !.already_exists = @ + skipped_existing,
                                !.total = @ + skipped_existing]
       IN  /\ summary' = s
           /\ Exit(IF SummaryFormatRaises(s) THEN 1 ELSE 0)
    /\ UNCHANGED <<settings, group_answers, denied, callback, remote_answer,
                   last_queries, update_mode, raw_records, records, group_results, existing_cache,
                   cache_loaded, existing_loads, group_membership_cache,
                   membership_loads, existing_records, new_records, records_to_update,
                   skipped_existing, batch_summary, pos, calls, results, reported>>

Next ==
    \/ Construct
    \/ ConstructFails
    \/ ReadFileFails
    \/ ReadAndClassify
    \/ CreateGroups
    \/ LoadExisting
    \/ LoadMembership
    \/ ProcessNext
    \/ UpdateNext
    \/ DisplaySummary

Spec == Init /\ [][Next]_vars

(***************************************************************************)
(* ProcessingSummary on its own: record_result applied to any sequence of  *)
(* results.                                                                *)
(***************************************************************************)
InitSummary ==
    /\ settings = "loaded"
    /\ pc = "summary_object"
    /\ update_mode = FALSE
    /\ Idle

RecordOne ==
    /\ pc = "summary_object"
    /\ summary.total < MaxResults
    /\ \E status \in OperationStatus : summary' = RecordResult(summary, status)
    /\ UNCHANGED <<settings, group_answers, denied, callback, remote_answer,
                   last_queries, pc, update_mode, raw_records, records, group_results, existing_cache,
                   cache_loaded, existing_loads, group_membership_cache,
                   membership_loads, existing_records, new_records, records_to_update,
                   skipped_existing, batch_summary, pos, calls, results, reported,
                   exit_code>>

NextSummary == RecordOne

SpecSummary == InitSummary /\ [][NextSummary]_vars

(***************************************************************************)
(* ExistingRecordsCache on its own: load called any number of times on one *)
(* cache object.                                                           *)
(***************************************************************************)
\* the records exists() is asked about: the classified lines, and every
\* network record, host bits set or not
ProbeRecords ==
    {classify(line) : line \in SampleLines}
        \cup {NetworkRecord(Cidr(a, p), "network_cidr") :
                  a \in 0..(Pow2(AddrBits) - 1), p \in 0..AddrBits}

InitCache ==
    /\ settings = "loaded"
    /\ pc = "cache_object"
    /\ update_mode = FALSE
    /\ Idle

CacheLoad ==
    /\ pc = "cache_object"
    /\ existing_loads < MaxLoads
    /\ \E a1 \in Answers(RemoteFqdnHosts), a2 \in Answers(RemoteIpHosts),
          a3 \in Answers(RemoteIpHosts) :
        LET r == ExistingLoad(existing_cache, a1, a2, a3)
        IN  /\ existing_cache' = r.cache
            /\ cache_loaded' = r.ret
            /\ last_queries' = SubSeq(<<a1.kind, a2.kind, a3.kind>>, 1, r.queries)
    /\ existing_loads' = existing_loads + 1
    /\ reported' = <<>>
    /\ UNCHANGED <<settings, group_answers, denied, callback, remote_answer,
                   pc, update_mode, raw_records, records, group_results,
                   group_membership_cache, membership_loads, existing_records,
                   new_records, records_to_update, skipped_existing, summary,
                   batch_summary, pos, calls, results, exit_code>>

\* exists() asked about one record; the answer of the cache as it is now is
\* kept in reported
CacheExists ==
    /\ pc = "cache_object"
    /\ \E record \in ProbeRecords :
        reported' = <<[record |-> record,
                       exists |-> Exists(existing_cache, record)]>>
    /\ UNCHANGED <<settings, group_answers, denied, callback, remote_answer,
                   last_queries, pc, update_mode, raw_records, records, group_results, existing_cache,
                   cache_loaded, existing_loads, group_membership_cache,
                   membership_loads, existing_records, new_records, records_to_update,
                   skipped_existing, summary, batch_summary, pos, calls, results,
                   exit_code>>

NextCache == CacheLoad \/ CacheExists

SpecCache == InitCache /\ [][NextCache]_vars

(***************************************************************************)
(* SophosFirewallClient's create operations on their own: one valid record *)
(* is created, the remote answering in any of the modelled ways.           *)
(***************************************************************************)
InitClient ==
    /\ settings = "loaded"
    /\ pc = "client_object"
    /\ update_mode = FALSE
    /\ Idle

\* create_fqdn_host / create_ip_host / create_network through
\* _execute_operation; the outcome is kept in results
ClientCreate ==
    /\ pc = "client_object"
    /\ \E line \in SampleLines, ans \in CreateAnswers :
        LET record == classify(line)
            r == ExecuteOperation(record, ans)
        IN  /\ is_valid(record)
            /\ records' = <<record>>
            /\ remote_answer' = ans
            /\ results' = <<[raised |-> r.raised, result |-> r.result]>>
    /\ UNCHANGED <<settings, group_answers, denied, callback, last_queries, pc,
                   update_mode, raw_records, group_results, existing_cache,
                   cache_loaded, existing_loads, group_membership_cache,
                   membership_loads, existing_records, new_records, records_to_update,
                   skipped_existing, summary, batch_summary, pos, calls, reported,
                   exit_code>>

NextClient == ClientCreate

SpecClient == InitClient /\ [][NextClient]_vars

(***************************************************************************)
(* RecordProcessingService.process_batch on its own: any list of records,  *)
(* called without a callback, with a callback that collects the results it *)
(* is given, or with run()'s create_callback.                              *)
(***************************************************************************)
Callbacks == {"none", "collect", "create_callback"}

\* callback(result) raises: create_callback raises what the formatter raises
CallbackRaises(cb, status) == cb = "create_callback" /\ ResultFormatRaises(status)

InitBatch ==
    /\ settings = "loaded"
    /\ pc = "batch_object"
    /\ update_mode = FALSE
    /\ Idle

\* process_batch(records, callback) is called: summary = ProcessingSummary()
BatchCall ==
    /\ pc = "batch_object"
    /\ \E lines \in InputFiles \cup {<<>>}, cb \in Callbacks :
        /\ records' = classify_batch(lines)
        /\ new_records' = [i \in 1..Len(lines) |-> i]
        /\ callback' = cb
        /\ pc' = IF Len(lines) = 0 THEN "batch_returned" ELSE "batch_loop"
    /\ batch_summary' = EmptySummary
    /\ pos' = 1
    /\ UNCHANGED <<settings, group_answers, denied, remote_answer, last_queries,
                   update_mode, raw_records, group_results, existing_cache,
                   cache_loaded, existing_loads, group_membership_cache,
                   membership_loads, existing_records, records_to_update,
                   skipped_existing, summary, calls, results, reported, exit_code>>

\* one iteration of process_batch's loop: process_record, record_result,
\* then the callback; an exception of process_record or of the callback
\* leaves process_batch
BatchNext ==
    /\ pc = "batch_loop"
    /\ pos <= Len(new_records)
    /\ \E ans \in CreateAnswers :
        LET line == new_records[pos]
            r == ProcessRecord(records[line], ans)
            b == RecordResult(batch_summary, r.result.status)
        IN  /\ calls' = calls \o RequestCalls(r.requests, line)
            /\ denied' = denied \cup DeniedRequests(r.requests, ans, line)
            /\ IF r.raised
               THEN /\ pc' = "batch_raised"
                    /\ UNCHANGED <<results, reported, batch_summary, pos>>
               ELSE /\ results' = Append(results, Reported(line, r.result.status))
                    /\ batch_summary' = b
                    /\ IF CallbackRaises(callback, r.result.status)
                       THEN /\ pc' = "batch_raised"
                            /\ UNCHANGED <<reported, pos>>
                       ELSE /\ reported' =
                                 IF callback = "none" THEN reported
                                 ELSE Append(reported, Reported(line, r.result.status))
                            /\ pos' = pos + 1
                            /\ pc' = IF pos < Len(new_records)
                                     THEN "batch_loop" ELSE "batch_returned"
    /\ UNCHANGED <<settings, group_answers, callback, remote_answer, last_queries,
                   update_mode, raw_records, records, group_results, existing_cache,
                   cache_loaded, existing_loads, group_membership_cache,
                   membership_loads, existing_records, new_records, records_to_update,
                   skipped_existing, summary, exit_code>>

NextBatch == BatchCall \/ BatchNext

SpecBatch == InitBatch /\ [][NextBatch]_vars

(***************************************************************************)
(* GroupMembershipCache on its own (src/services/cache_service.py): load   *)
(* may be called again on the same object, is_member at any time.          *)
(***************************************************************************)
InitMembership ==
    /\ settings = "loaded"
    /\ pc = "membership_object"
    /\ update_mode = TRUE
    /\ Idle

MembershipCacheLoad ==
    /\ pc = "membership_object"
    /\ membership_loads < MaxLoads
    /\ \E a1 \in Answers(RemoteFqdnMembers), a2 \in Answers(RemoteIpMembers) :
        LET r == MembershipLoad(group_membership_cache, a1, a2)
        IN  /\ group_membership_cache' = r.cache
            /\ last_queries' = SubSeq(<<a1.kind, a2.kind>>, 1, r.queries)
    /\ membership_loads' = membership_loads + 1
    /\ reported' = <<>>
    /\ UNCHANGED <<settings, group_answers, denied, callback, remote_answer,
                   pc, update_mode, raw_records, records, group_results,
                   existing_cache, cache_loaded, existing_loads, existing_records,
                   new_records, records_to_update, skipped_existing, summary,
                   batch_summary, pos, calls, results, exit_code>>

\* is_member() asked about one record; the answer of the cache as it is now
\* is kept in reported
MembershipIsMember ==
    /\ pc = "membership_object"
    /\ \E record \in ProbeRecords :
        reported' = <<[record |-> record,
                       member |-> IsMember(group_membership_cache, record)]>>
    /\ UNCHANGED <<settings, group_answers, denied, callback, remote_answer,
                   last_queries, pc, update_mode, raw_records, records, group_results,
                   existing_cache, cache_loaded, existing_loads, group_membership_cache,
                   membership_loads, existing_records, new_records, records_to_update,
                   skipped_existing, summary, batch_summary, pos, calls, results,
                   exit_code>>

NextMembership == MembershipCacheLoad \/ MembershipIsMember

SpecMembership == InitMembership /\ [][NextMembership]_vars

(***************************************************************************)
(* The classifier on its own (src/domain/validators.py): one value given   *)
(* to the three validators and to classify, or a list given to             *)
(* classify_batch.  The values are any strings, not only stripped lines.   *)
(***************************************************************************)
\* a label of n letters
LongLabel(n) == [i \in 1..n |-> "a"]

\* a name of n characters made of labels of MAX_LABEL letters
LongName(n) == [i \in 1..n |-> IF i % (MAX_LABEL + 1) = 0 THEN "." ELSE "a"]

\* the names given to the validators
ClassifyNames ==
    { <<>>, <<"a">>, <<"a", ".", "b">>, <<"A", ".", "b">>,
      <<"*", ".", "a", ".", "b">>, <<"*", ".", "a">>,
      <<"a", ".", "b", ".">>, <<"a", ".", "b", ".", ".">>, <<"a", ".">>,
      <<"a", ".", ".", "b">>, <<".", "a", ".", "b">>,
      <<"-", "a", ".", "b">>, <<"a", "-", ".", "b">>, <<"a", "-", "1", ".", "b">>,
      <<"a", ".", "b", "\n">>, <<"a", ".", "b", ".", "\n">>,
      <<"a", ".", "b", "\n", "\n">>, <<" ", "a", ".", "b">>,
      <<"a", ".", "b", " ">>, <<"a", " ", "b", ".", "b">>,
      LongLabel(MAX_LABEL) \o <<".", "b">>, LongLabel(MAX_LABEL + 1) \o <<".", "b">>,
      LongName(MAX_LENGTH), LongName(MAX_LENGTH) \o <<".">>, LongName(MAX_LENGTH + 1) }

\* the values given to the validators: names, addresses (one out of range)
\* and networks with every prefix (one out of range), host bits set or not
ClassifyLines ==
    {Name(t) : t \in ClassifyNames}
        \cup {Ip(a) : a \in 0..Pow2(AddrBits)}
        \cup {Cidr(a, p) : a \in 0..(Pow2(AddrBits) - 1), p \in 0..(AddrBits + 1)}

\* the values a list given to classify_batch is made of
BatchLines ==
    SampleLines \cup {Name(<<" ", "a", ".", "b">>), Name(<<"a", ".", "b", "\n">>),
                      Name(<<"a", " ", "b", ".", "b">>)}

\* is_valid of the three validators on one value
Verdicts(value) ==
    [value |-> value,
     fqdn |-> FQDNValidator(value),
     ip |-> IPAddressValidator(value),
     network |-> NetworkCIDRValidator(value)]

InitClassify ==
    /\ settings = "loaded"
    /\ pc = "classifier_object"
    /\ update_mode = FALSE
    /\ Idle

\* is_valid of the three validators on one value and on the value trimmed,
\* and classify on the value; the verdicts are kept in reported
ClassifyOne ==
    /\ pc = "classifier_object"
    /\ \E value \in ClassifyLines :
        /\ raw_records' = <<value>>
        /\ records' = <<classify(value)>>
        /\ reported' = <<Verdicts(value), Verdicts(StripLine(value))>>
    /\ UNCHANGED <<settings, group_answers, denied, callback, remote_answer,
                   last_queries, pc, update_mode, group_results, existing_cache,
                   cache_loaded, existing_loads, group_membership_cache,
                   membership_loads, existing_records, new_records, records_to_update,
                   skipped_existing, summary, batch_summary, pos, calls, results,
                   exit_code>>

\* classify_batch on a list of values
ClassifyBatch ==
    /\ pc = "classifier_object"
    /\ \E values \in UNION {[1..n -> BatchLines] : n \in 0..MaxLines} :
        /\ raw_records' = values
        /\ records' = classify_batch(values)
    /\ reported' = <<>>
    /\ UNCHANGED <<settings, group_answers, denied, callback, remote_answer,
                   last_queries, pc, update_mode, group_results, existing_cache,
                   cache_loaded, existing_loads, group_membership_cache,
                   membership_loads, existing_records, new_records, records_to_update,
                   skipped_existing, summary, batch_summary, pos, calls, results,
                   exit_code>>

NextClassify == ClassifyOne \/ ClassifyBatch

SpecClassify == InitClassify /\ [][NextClassify]_vars

(***************************************************************************)
(* Properties.                                                             *)
(***************************************************************************)
AllRecords == {NetworkRecord(l, t) : l \in SampleLines, t \in RecordType}

CallSet == {calls[k] : k \in 1..Len(calls)}
ResultSet == {results[k] : k \in 1..Len(results)}
InSeq(x, seq) == \E k \in 1..Len(seq) : seq[k] = x
Occurrences(x, seq) == Cardinality({k \in 1..Len(seq) : seq[k] = x})

\* run() has returned otherwise than through the access-restriction handler
ReturnedUnrestricted == pc = "done" /\ exit_code \in {0, 1, 3}

\* run() has passed the partition of step 4
Partitioned == pc \in {"membership", "create", "update", "summary", "done"}
                 /\ existing_loads = 1

\* run() went through both loops and reached the display of the summary
SummaryReached ==
    /\ pc = "done"
    /\ Len(new_records) > 0
    /\ Len(reported) = Len(new_records)
    /\ Len(records_to_update) = 0

\* C1: after record_result has been applied to any sequence of results
\* (the empty one included), total equals the sum of the category counters
\* of the summary (successful, already_exists, failed, skipped).
C1_TotalIsCategorySum == summary.total = CategorySum(summary)

C1_Witness ==
    /\ pc = "summary_object"
    /\ summary.successful >= 2
    /\ summary.already_exists >= 1
    /\ summary.failed >= 1
    /\ summary.skipped >= 1

\* C2: whenever the most recent load returned false, or load was never
\* called, exists() is false for every record of every type, whatever an
\* earlier or partially completed load left in the sets.
C2_FailOpen ==
    ~cache_loaded => \A record \in AllRecords : ~Exists(existing_cache, record)

C2_Witness ==
    /\ pc = "cache_object"
    /\ existing_loads = 2
    /\ ~cache_loaded
    /\ existing_cache.fqdns # {}
    /\ existing_cache.ip_hosts # {}
    /\ \E k \in 1..Len(reported) :
          /\ reported[k].record.record_type = "fqdn"
          /\ Lower(reported[k].record.value.text) \in existing_cache.fqdns
          /\ ~reported[k].exists

\* C3: if any of the three remote queries of a load failed at the remote,
\* that load returned false and exists() answers false for every record.
C3_FailedQueryFailsLoad ==
    (\E k \in 1..Len(last_queries) : last_queries[k] # "ok")
        => /\ ~cache_loaded
           /\ \A record \in AllRecords : ~Exists(existing_cache, record)

\* C4 (partition): with the cache loaded every record is in exactly one of
\* existing and new, it is in existing iff it is valid and exists() is true,
\* and every invalid record is in new.
C4_Partition ==
    (Partitioned /\ cache_loaded) =>
        \A i \in 1..Len(records) :
            /\ Occurrences(i, existing_records) + Occurrences(i, new_records) = 1
            /\ InSeq(i, existing_records)
                 <=> (is_valid(records[i]) /\ Exists(existing_cache, records[i]))
            /\ ~is_valid(records[i]) => InSeq(i, new_records)

\* C4 (outcome): with the cache loaded, once run() has returned (otherwise
\* than on an access restriction) every invalid record has a Skipped result.
C4_InvalidSkipped ==
    (ReturnedUnrestricted /\ Partitioned /\ cache_loaded) =>
        \A i \in 1..Len(records) :
            ~is_valid(records[i]) => [line |-> i, status |-> "skipped"] \in ResultSet

\* C4: reconciliation partition; a record is existing iff valid and found by
\* the cache, every invalid record is new and is later reported as Skipped.
C4_PartitionAndSkipped == C4_Partition /\ C4_InvalidSkipped

\* C5 (routing): with the cache not loaded all records are new, none is
\* queued for update and the membership cache is neither loaded nor queried.
C5_Routing ==
    (Partitioned /\ ~cache_loaded) =>
        /\ new_records = Lines
        /\ existing_records = <<>>
        /\ records_to_update = <<>>
        /\ membership_loads = 0
        /\ ~group_membership_cache.loaded
        /\ \A c \in CallSet : c.op \notin {"get_fqdn_hostgroup", "get_ip_hostgroup"}

\* C5 (attempts): with the cache not loaded, once run() has returned
\* (otherwise than on an access restriction) every valid record had a create
\* call.
C5_EveryValidAttempted ==
    (ReturnedUnrestricted /\ Partitioned /\ ~cache_loaded) =>
        \A i \in 1..Len(records) :
            is_valid(records[i]) => \E c \in CallSet : c.line = i /\ c.op \in CreateOps

\* C5: if the existing-records cache failed to load, all records are treated
\* as new (each valid one gets a create attempt), none is queued for update
\* and the membership cache is never loaded or queried, whatever update_mode.
C5_FallbackAllNew == C5_Routing /\ C5_EveryValidAttempted

\* C6 (no call): without update mode and with the cache loaded, no create or
\* update call is issued for a record the cache reports as existing.
C6_NoCallForExisting ==
    (~update_mode /\ Partitioned /\ cache_loaded) =>
        \A c \in CallSet :
            (c.op \in CreateOps \cup UpdateOps)
                => ~Exists(existing_cache, records[c.line])

\* C6 (count): without update mode and with the cache loaded, once a run that
\* had records to create has returned (otherwise than on an access
\* restriction), its summary counts at least the existing records as
\* AlreadyExists.
C6_ExistingCounted ==
    (~update_mode /\ ReturnedUnrestricted /\ Partitioned /\ cache_loaded
        /\ Len(new_records) > 0)
        => summary.already_exists >= Len(existing_records)

\* C6: with update_mode false and a loaded cache no remote create or update
\* call is issued for an existing record, and each such record is counted
\* exactly once as AlreadyExists in the run's summary.
C6_ExistingSkippedAndCounted == C6_NoCallForExisting /\ C6_ExistingCounted

\* the existing lines the membership cache reports as members
MemberLines ==
    {i \in 1..Len(records) :
        InSeq(i, existing_records) /\ IsMember(group_membership_cache, records[i])}

\* C7 (no call): in update mode no remote call is issued for an existing
\* record the membership cache reports as a member of its group.
C7_NoCallForMembers ==
    (update_mode /\ Partitioned /\ membership_loads = 1) =>
        \A c \in CallSet : c.line \notin MemberLines

\* C7 (count): in update mode, when run() reached the display of its summary,
\* the summary counts the existing records that are members as AlreadyExists.
C7_MembersCounted ==
    (update_mode /\ SummaryReached /\ membership_loads = 1) =>
        summary.already_exists >= Cardinality(MemberLines)

\* C7: with update_mode true every existing record that the membership cache
\* reports as a member of its group receives no remote call and is counted
\* as AlreadyExists in the run's summary.
C7_MembersSkippedAndCounted == C7_NoCallForMembers /\ C7_MembersCounted

\* C8: with update_mode true, once run() has returned (otherwise than on an
\* access restriction) every existing record queued for update has a result,
\* had an update-membership call and no create call, and is counted as
\* successful in the summary.
C8_UpdatedRecords ==
    (update_mode /\ ReturnedUnrestricted /\ Partitioned) =>
        \A k \in 1..Len(records_to_update) :
            LET i == records_to_update[k]
            IN  /\ \E r \in ResultSet : r.line = i
                /\ \E c \in CallSet : c.line = i /\ c.op \in UpdateOps
                /\ \A c \in CallSet : c.line = i => c.op \notin CreateOps
                /\ summary.successful >= 1

\* C9: process_record on an invalid record returns Skipped and makes no call
\* on the firewall client.
C9_InvalidSkippedNoCall ==
    \A r \in ResultSet :
        ~is_valid(records[r.line])
            => /\ r.status = "skipped"
               /\ \A c \in CallSet : c.line # r.line

C9_Witness ==
    /\ \E r \in ResultSet : ~is_valid(records[r.line]) /\ r.status = "skipped"
    /\ \E c \in CallSet : c.op \in CreateOps

\* the create operation of a record type
CreateOpOf(record_type) ==
    CASE record_type = "fqdn" -> "create_fqdn_host"
      [] record_type = "ip_address" -> "create_ip_host"
      [] record_type = "network_cidr" -> "create_ip_network"
      [] OTHER -> "none"

\* C10 (one create of the right kind): every valid record process_record
\* handled had exactly one create call, of the kind of its type.
C10_OneMatchingCreate ==
    \A r \in ResultSet :
        is_valid(records[r.line])
            => /\ Cardinality({k \in 1..Len(calls) : calls[k].line = r.line}) = 1
               /\ \A c \in CallSet :
                     c.line = r.line => c.op = CreateOpOf(records[r.line].record_type)

\* C10 (group): every create request names the target group of the record's
\* type.
C10_GroupPassed ==
    \A c \in CallSet :
        c.op \in CreateOps
            => c.group = get_group_for_record_type(records[c.line].record_type)

\* C10: for every valid record process_record issues exactly one create of
\* the kind matching its type, and the target group selected for the type is
\* passed to the remote with that create request.
C10_CreateCarriesGroup == C10_OneMatchingCreate /\ C10_GroupPassed

\* the answer carries an already-exists signal: the structured status code
\* or the text "already exists" / "same name"
AlreadyExistsSignal(ans) == ans.code = STATUS_ALREADY_EXISTS \/ ans.ae

\* C11: whenever the remote's answer to a per-record create carries an
\* already-exists signal (and is not the access-restriction error), the
\* OperationResult's status is never Failed, and it is AlreadyExists unless
\* the answer's structured code reports success, whatever other status code
\* comes with the text and whether it arrives as a response or as an error
\* payload.
C11_AlreadyExistsNotFailed ==
    \A k \in 1..Len(results) :
        (pc = "client_object" /\ AlreadyExistsSignal(remote_answer)
            /\ ~results[k].raised)
            => /\ results[k].result.status # "failed"
               /\ remote_answer.code # STATUS_SUCCESS
                    => results[k].result.status = "already_exists"

\* C15: process_batch handles the records in input order, one result each;
\* every result is folded into the summary before the callback sees it; a
\* callback is given each result once, in the same order; and when
\* process_batch returns, the summary's total is the number of input
\* records, invalid ones included.
C15_BatchInOrder ==
    (pc \in {"batch_loop", "batch_returned", "batch_raised"}) =>
        /\ \A k \in 1..Len(results) : results[k].line = k
        /\ batch_summary.total = Len(results)
        /\ Len(reported) <= Len(results)
        /\ \A k \in 1..Len(reported) : reported[k] = results[k]
        /\ callback = "none" => reported = <<>>
        /\ (callback # "none" /\ pc = "batch_loop") => reported = results
        /\ pc = "batch_returned" =>
              /\ Len(results) = Len(records)
              /\ batch_summary.total = Len(records)
              /\ callback # "none" => reported = results

C15_Witness ==
    /\ pc = "batch_returned"
    /\ callback = "collect"
    /\ Len(records) = 2
    /\ reported = results
    /\ results[1].status = "skipped"
    /\ results[2].status = "failed"
    /\ batch_summary.total = 2

\* C12: when a per-record create fails (otherwise than on the access
\* restriction) the record has a Failed result, the failure is counted in
\* the run's summary and every later record of the batch is still processed:
\* once run() has returned (otherwise than on an access restriction), a
\* Failed result implies a failed count in the summary and a result for
\* every record of the batch.
C12_FailureRecoveredLocally ==
    (ReturnedUnrestricted /\ Partitioned) =>
        \A k \in 1..Len(results) :
            results[k].status = "failed" =>
                /\ summary.failed >= 1
                /\ \A i \in 1..Len(new_records) :
                      \E r \in ResultSet : r.line = new_records[i]

\* C13: when the remote answers a per-record create with the
\* access-restriction error, the run is over with exit code 2, that record
\* has no OperationResult and that create is the last remote call of the run.
C13_RestrictedCreateAborts ==
    \A d \in denied :
        d.op \in CreateOps =>
            /\ pc = "done"
            /\ exit_code = 2
            /\ \A r \in ResultSet : r.line # d.line
            /\ Len(calls) > 0
            /\ calls[Len(calls)].line = d.line
            /\ calls[Len(calls)].op = d.op

C13_Witness ==
    /\ Len(records) = 2
    /\ \E d \in denied : d.op \in CreateOps /\ d.line = 2
    /\ \E r \in ResultSet : r.line = 1 /\ r.status = "success"
    /\ exit_code = 2

\* C14: whenever the remote has answered any remote call of the run (group
\* creation, existing-records query, membership query or per-record create)
\* with the access-restriction error, the run is over with exit code 2.
C14_RestrictionAlwaysFatal ==
    denied # {} => (pc = "done" /\ exit_code = 2)

\* C16: over a whole run the results are produced and reported in the order
\* of the input lines: in both sequences a result for an earlier line comes
\* before a result for a later line.
C16_ReportedInLineOrder ==
    /\ \A j \in 1..Len(results), k \in 1..Len(results) :
          j < k => results[j].line < results[k].line
    /\ \A j \in 1..Len(reported), k \in 1..Len(reported) :
          j < k => reported[j].line < reported[k].line

C16_Witness ==
    /\ update_mode
    /\ pc = "done"
    /\ Len(reported) = 2
    /\ reported[1].line = 1
    /\ reported[2].line = 2

\* the create and update-membership calls issued for a line
CallsForLine(i) ==
    {k \in 1..Len(calls) : calls[k].line = i /\ calls[k].op \in CreateOps \cup UpdateOps}

\* C17 (at most one): at most one create or update-membership call is issued
\* for each input line.
C17_AtMostOneCall ==
    \A i \in 1..Len(records) : Cardinality(CallsForLine(i)) <= 1

\* C17 (no call after Failed): no step issues a remote call for a line that
\* already has a Failed result.
C17_NoCallAfterFailed ==
    [][\A r \in ResultSet :
          r.status = "failed" =>
              \A k \in (Len(calls) + 1)..Len(calls') : calls'[k].line # r.line]_vars

\* C17: no retries; within one run at most one remote create or
\* update-membership call is issued for each input line, and a Failed result
\* for a line is never followed by another remote call for that line.
C17_NoRetries == []C17_AtMostOneCall /\ C17_NoCallAfterFailed

C17_Witness ==
    /\ pc = "done"
    /\ \E r \in ResultSet :
          /\ r.status = "failed"
          /\ r.line = 2
          /\ Cardinality(CallsForLine(r.line)) = 1
    /\ Cardinality(CallsForLine(1)) = 1

\* the answers to a group creation that are fatal to the run
FatalGroupAnswers == GroupAnswers \ {"created", "already_exists"}

\* run() went on after the group creations
WentOnToCaches == pc = "existing" \/ existing_loads >= 1

\* C18: when the remote answers the creation of a group with already-exists,
\* that group is recorded as not newly created, the other group is still
\* attempted and, unless the other group's creation is fatal, the run goes on
\* to load the caches.
C18_AlreadyExistsNotFatal ==
    /\ (Len(group_answers) >= 1 /\ group_answers[1] = "already_exists") =>
          /\ Len(group_answers) = 2
          /\ \E c \in CallSet : c.op = "create_ip_hostgroup"
          /\ group_answers[2] \notin FatalGroupAnswers =>
                (group_results.fqdn = "existed" /\ WentOnToCaches)
    /\ (Len(group_answers) = 2 /\ group_answers[2] = "already_exists") =>
          /\ \E c \in CallSet : c.op = "create_fqdn_hostgroup"
          /\ group_results.ip = "existed"
          /\ WentOnToCaches

C18_Witness ==
    /\ group_answers = <<"already_exists", "already_exists">>
    /\ group_results = [fqdn |-> "existed", ip |-> "existed"]
    /\ existing_loads = 1
    /\ \E r \in ResultSet : r.status = "success"

\* C19: when the remote answers the creation of either group with an
\* operation error that is not already-exists, the run is over with exit
\* code 3 and the failed group creation is its last remote call: no cache
\* query, create or update call follows.
C19_GroupFailureAborts ==
    (\E k \in 1..Len(group_answers) : group_answers[k] = "operation_error") =>
        /\ pc = "done"
        /\ exit_code = 3
        /\ Len(calls) = Len(group_answers)
        /\ \A c \in CallSet : c.op \in {"create_fqdn_hostgroup", "create_ip_hostgroup"}
        /\ existing_loads = 0
        /\ membership_loads = 0
        /\ results = <<>>

C19_Witness ==
    /\ group_answers = <<"already_exists", "operation_error">>
    /\ pc = "done"
    /\ exit_code = 3
    /\ Len(calls) = 2

\* C20: when the settings are missing or invalid the program makes no remote
\* call and ends with exit code 4.
C20_ConfigurationErrorExit ==
    settings = "invalid" => (pc = "done" /\ exit_code = 4 /\ calls = <<>>)

(***************************************************************************)
(* Classification.                                                         *)
(***************************************************************************)
\* a network whose address and prefix length are in range and whose address
\* is the network address of that prefix
WellFormedNetwork(v) ==
    /\ v.shape = "cidr"
    /\ v.addr \in 0..(Pow2(AddrBits) - 1)
    /\ v.prefix \in 0..AddrBits
    /\ v.addr % Pow2(AddrBits - v.prefix) = 0

\* the type of the first validator, in the order CIDR, IP address, FQDN, that
\* accepts
FirstAccepted(v) ==
    IF v.network THEN "network_cidr"
    ELSE IF v.ip THEN "ip_address"
    ELSE IF v.fqdn THEN "fqdn"
    ELSE "invalid"

C23_BatchOrderPreservingTotal ==
    (pc = "classifier_object" /\ Len(reported) = 0) =>
        /\ Len(records) = Len(raw_records)
        /\ \A i \in 1..Len(raw_records) :
              /\ i <= Len(records)
              /\ records[i] = classify(raw_records[i])
              /\ records[i].value = StripLine(raw_records[i])

\* a list with an invalid value before a valid one, and a value given twice,
\* has been classified
C23_Witness ==
    /\ pc = "classifier_object"
    /\ Len(reported) = 0
    /\ Len(records) = MaxLines
    /\ ~is_valid(records[1])
    /\ is_valid(records[MaxLines])
    /\ \/ raw_records[1] = raw_records[MaxLines - 1]
       \/ raw_records[MaxLines] = raw_records[MaxLines - 1]

\* a label of the rule: 1 to MAX_LABEL letters, digits or hyphens, no hyphen
\* first or last
RuleLabel(l) ==
    /\ Len(l) \in 1..MAX_LABEL
    /\ \A i \in 1..Len(l) :
          Lower(l)[i] \in {"a", "b", "-"} \cup {Digits[n] : n \in 1..Len(Digits)}
    /\ l[1] # "-"
    /\ l[Len(l)] # "-"

\* the rule on a string: one leading "*." and one trailing dot set aside,
\* at least MIN_LABELS labels, each a label of the rule, at most MAX_LENGTH
\* characters
FqdnRule(t) ==
    LET s == RemoveWildcard(t)
        body == IF Len(s) > 0 /\ s[Len(s)] = "." THEN SubSeq(s, 1, Len(s) - 1) ELSE s
        labels == SplitDots(body)
    IN  /\ Len(labels) >= MIN_LABELS
        /\ \A i \in 1..Len(labels) : RuleLabel(labels[i])
        /\ Len(body) <= MAX_LENGTH

\* C24: the FQDN validator accepts a string if and only if the string
\* follows the rule (labels of letters, digits and hyphens, at least two,
\* one optional leading "*." and one optional trailing dot, length bound).
C24_FqdnRule ==
    pc = "classifier_object" =>
        \A k \in 1..Len(reported) :
            reported[k].fqdn <=> FqdnRule(Text(reported[k].value))

(***************************************************************************)
(* Caches.                                                                 *)
(***************************************************************************)
\* two records with the same key: FQDNs equal but for letter case, networks
\* of the same prefix length whose addresses agree on the network bits
SameKey(r1, r2) ==
    /\ r1.record_type = r2.record_type
    /\ CASE r1.record_type = "fqdn" ->
              /\ Len(r1.value.text) = Len(r2.value.text)
              /\ \A i \in 1..Len(r1.value.text) :
                    LowerChar(r1.value.text[i]) = LowerChar(r2.value.text[i])
         [] r1.record_type = "network_cidr" ->
              /\ r1.value.prefix = r2.value.prefix
              /\ r1.value.addr \div Pow2(AddrBits - r1.value.prefix)
                    = r2.value.addr \div Pow2(AddrBits - r2.value.prefix)
         [] OTHER -> r1.value = r2.value

\* C25: with the cache loaded, the answer exists() gave for a record is the
\* answer it gives for every record with the same key (same canonical
\* network, or same FQDN but for letter case).
C25_ExistsInsensitive ==
    (pc = "cache_object" /\ cache_loaded) =>
        \A k \in 1..Len(reported) : \A other \in ProbeRecords :
            SameKey(reported[k].record, other) =>
                reported[k].exists = Exists(existing_cache, other)

\* the loaded cache has answered true for a network written with host bits
\* set, or for an FQDN written with a capital letter
C25_Witness ==
    /\ pc = "cache_object"
    /\ cache_loaded
    /\ \E k \in 1..Len(reported) :
          /\ reported[k].exists
          /\ \/ /\ reported[k].record.record_type = "network_cidr"
                /\ CanonicalNetwork(reported[k].record.value.addr,
                                    reported[k].record.value.prefix)
                       # reported[k].record.value
             \/ /\ reported[k].record.record_type = "fqdn"
                /\ Lower(reported[k].record.value.text) # reported[k].record.value.text

\* C26: if one of the group-members queries of a load failed at the remote,
\* the membership cache is not loaded and is_member answers false for every
\* record.
C26_MembershipFailOpen ==
    (pc = "membership_object"
        /\ \E k \in 1..Len(last_queries) : last_queries[k] # "ok")
        => /\ ~group_membership_cache.loaded
           /\ \A record \in ProbeRecords : ~IsMember(group_membership_cache, record)
           /\ \A k \in 1..Len(reported) : ~reported[k].member

\* a step that leaves a cache whose load has returned as it is
LoadedCachesKept ==
    /\ (existing_loads >= 1) =>
          (existing_cache' = existing_cache /\ cache_loaded' = cache_loaded)
    /\ (membership_loads >= 1) =>
          (group_membership_cache' = group_membership_cache)

\* C27: each cache is loaded at most once in a run, and once a load has
\* returned no step changes the sets or the flags of that cache; a
\* successful create leaves the created value out of the cache.
C27_CachesAreSnapshots ==
    /\ [](existing_loads <= 1 /\ membership_loads <= 1)
    /\ [][LoadedCachesKept]_vars

\* an update-mode run has loaded both caches, has created a record with
\* success, and the loaded existing-records cache still answers that the
\* record does not exist
C27_Witness ==
    /\ update_mode
    /\ existing_loads = 1
    /\ membership_loads = 1
    /\ cache_loaded
    /\ group_membership_cache.loaded
    /\ \E r \in ResultSet :
          /\ r.status = "success"
          /\ ~Exists(existing_cache, records[r.line])

(***************************************************************************)
(* The run as a whole.                                                     *)
(***************************************************************************)
\* the lines of the file that classify as valid, and as invalid
ValidLines == {i \in 1..Len(records) : is_valid(records[i])}
InvalidLines == {i \in 1..Len(records) : ~is_valid(records[i])}

\* run() has returned from a run on a fresh remote on which no create was
\* refused: the existing-records cache loaded and empty, no request met an
\* access restriction, no result says Failed or AlreadyExists
FreshRemoteRun ==
    /\ pc = "done"
    /\ Partitioned
    /\ cache_loaded
    /\ existing_cache.fqdns = {}
    /\ existing_cache.ip_hosts = {}
    /\ existing_cache.networks = {}
    /\ denied = {}
    /\ \A r \in ResultSet : r.status \notin {"failed", "already_exists"}

\* C21: a run on a fresh remote where every create succeeds issues exactly
\* one create per valid line, of the kind of its type, and none for an
\* invalid line, exits with code 0, and its summary has total = number of
\* lines, successful = number of valid lines, skipped = number of invalid
\* lines.
C21_FreshRemoteEndToEnd ==
    FreshRemoteRun =>
        /\ exit_code = 0
        /\ \A i \in ValidLines :
              /\ Cardinality(CallsForLine(i)) = 1
              /\ \A k \in CallsForLine(i) :
                    calls[k].op = CreateOpOf(records[i].record_type)
        /\ \A i \in InvalidLines : CallsForLine(i) = {}
        /\ summary.total = Len(records)
        /\ summary.successful = Cardinality(ValidLines)
        /\ summary.skipped = Cardinality(InvalidLines)

\* C28: when run() reached the display of its summary, summary.total is the
\* number of records read from the input file, in update mode as in
\* non-update mode.
C28_TotalIsInputCount ==
    SummaryReached => summary.total = Len(records)

\* C29: once run() has returned past the partition (otherwise than on an
\* access restriction), every record handed to process_batch has a result
\* and every result was reported by the callback, whatever its status: the
\* batch went to its last record.
C29_ReportingKeepsOutcome ==
    (ReturnedUnrestricted /\ Partitioned) =>
        /\ Len(results) = Len(new_records)
        /\ reported = results

\* the key the existing-records cache compares: an FQDN in lower case, a
\* network in canonical form
HostKey(value) ==
    CASE value.shape = "name" -> Name(Lower(value.text))
      [] value.shape = "cidr" -> CanonicalNetwork(value.addr, value.prefix)
      [] OTHER -> value

\* the members of the target group of a record, as the membership cache
\* holds them
GroupMembersOf(record) ==
    IF record.record_type = "fqdn" THEN group_membership_cache.fqdn_group_members
    ELSE group_membership_cache.ip_group_members

\* C30: in update mode, with both caches loaded, an existing record whose
\* host is a member of its target group under the key of the existence
\* check (letter case and host bits set aside) is not queued for update.
C30_ChecksAgreeOnKey ==
    (update_mode /\ Partitioned /\ membership_loads = 1 /\ group_membership_cache.loaded) =>
        \A k \in 1..Len(existing_records) :
            LET record == records[existing_records[k]]
            IN  (\E m \in GroupMembersOf(record) : HostKey(m) = HostKey(record.value))
                    => ~InSeq(existing_records[k], records_to_update)

====
